---------------------------- MODULE Spec2Model ----------------------------
(***************************************************************************)
(* GeoQuiz (tjasz/peakquiz): the guess ledger, the Correct Set and the     *)
(* loading of feature collections of the App component, with the           *)
(* normalize/isMatch matcher it uses.                                      *)
(*                                                                         *)
(* A JavaScript string is a sequence of characters, each character a       *)
(* one-element name ("a", " ", "U+0303").  A JavaScript Set is a sequence   *)
(* without repetition (its insertion order).  An object parsed from a      *)
(* fetched document has an identity: the load that produced it.            *)
(*                                                                         *)
(* Spec is the App.  SpecNormalize, SpecIsMatch and SpecRankedList call   *)
(* normalize, isMatch and RankedList on their own, on every input of a     *)
(* bounded set.  The other statistics views are functions of the state of  *)
(* Spec.                                                                   *)
(***************************************************************************)
EXTENDS Integers, Sequences, FiniteSets, TLC

(***************************************************************************)
(* Bounds of the model.                                                    *)
(***************************************************************************)
MaxLedger == 2     \* longest ledger handleSubmit still adds to
MaxLoads == 2      \* fetches started in one session
MaxPieces == 3     \* pieces a string handed to normalize is put together from
MaxCopies == 5     \* features with one value in a list handed to RankedList

\* the length of the ranked lists and the rank of the cutoff
TopCount == 10

(***************************************************************************)
(* Characters.                                                             *)
(***************************************************************************)
LowerLetters ==
  <<"a","b","c","d","e","f","g","h","i","j","k","l","m",
    "n","o","p","q","r","s","t","u","v","w","x","y","z">>

UpperLetters ==
  <<"A","B","C","D","E","F","G","H","I","J","K","L","M",
    "N","O","P","Q","R","S","T","U","V","W","X","Y","Z">>

Digits == {"0","1","2","3","4","5","6","7","8","9"}

\* the characters \s matches and trim() strips
WhiteSpace == {" ", "\t", "U+00A0"}

Range(f) == { f[i] : i \in DOMAIN f }

IndexOf(seq, x) == CHOOSE i \in 1..Len(seq) : seq[i] = x

\* String.prototype.toLowerCase, one character
ToLowerChar(c) ==
  IF c \in Range(UpperLetters) THEN LowerLetters[IndexOf(UpperLetters, c)]
  ELSE IF c = "U+00D1" THEN "U+00F1"          \* N with tilde
  ELSE c

\* String.prototype.normalize("NFKD"), one character
NFKDChar(c) ==
  CASE c = "U+00F1" -> <<"n", "U+0303">>      \* n with tilde
    [] c = "U+00D1" -> <<"N", "U+0303">>
    [] c = "U+00A0" -> <<" ">>                \* no-break space
    [] c = "U+00A8" -> <<" ", "U+0308">>      \* spacing diaeresis
    [] OTHER -> <<c>>

\* the class [a-z0-9\s] of the regular expression
IsKept(c) == c \in Range(LowerLetters) \/ c \in Digits \/ c \in WhiteSpace

(***************************************************************************)
(* String operations.                                                      *)
(***************************************************************************)
RECURSIVE TrimStart(_)
TrimStart(s) ==
  IF s # <<>> /\ Head(s) \in WhiteSpace THEN TrimStart(Tail(s)) ELSE s

RECURSIVE TrimEnd(_)
TrimEnd(s) ==
  IF s # <<>> /\ s[Len(s)] \in WhiteSpace
    THEN TrimEnd(SubSeq(s, 1, Len(s) - 1)) ELSE s

Trim(s) == TrimEnd(TrimStart(s))

ToLowerCase(s) == [i \in 1..Len(s) |-> ToLowerChar(s[i])]

\* NFKD left out: the string as it is
NoNFKD(s) == s

\* String.prototype.normalize("NFKD")
RECURSIVE NFKD(_)
NFKD(s) == IF s = <<>> THEN <<>> ELSE NFKDChar(Head(s)) \o NFKD(Tail(s))

\* replace(/[^a-z0-9\s]+/g, "")
StripOthers(s) == SelectSeq(s, IsKept)

\* split(/\s+/): the pieces between runs of white space, an empty piece
\* before a leading run and after a trailing one, [""] for the empty string
SplitWs(s) ==
  LET F[i \in 0..Len(s)] ==
        IF i = 0 THEN << <<>> >>
        ELSE LET parts == F[i-1]
             IN IF s[i] \in WhiteSpace
                  THEN IF i > 1 /\ s[i-1] \in WhiteSpace
                         THEN parts ELSE Append(parts, <<>>)
                  ELSE [parts EXCEPT ![Len(parts)] = Append(@, s[i])]
  IN F[Len(s)]

\* Array.prototype.join(" ")
RECURSIVE JoinSp(_)
JoinSp(parts) ==
  IF parts = <<>> THEN <<>>
  ELSE IF Len(parts) = 1 THEN parts[1]
  ELSE parts[1] \o <<" ">> \o JoinSp(Tail(parts))

\* the abbreviation map of normalize
Unabbreviate(part) ==
  IF part = <<"s","t">> THEN <<"s","a","i","n","t">>
  ELSE IF part = <<"m","t">> THEN <<"m","o","u","n","t">>
  ELSE part

normalize(s, ignoredWords) ==
  LET parts == SplitWs(StripOthers(NFKD(ToLowerCase(Trim(s)))))
      kept  == SelectSeq(parts, LAMBDA part : part \notin Range(ignoredWords))
  IN JoinSp([i \in 1..Len(kept) |-> Unabbreviate(kept[i])])

(***************************************************************************)
(* The strings of the model.                                               *)
(***************************************************************************)
sEmpty == <<>>
sSpace == <<" ">>
sK2 == <<"K","2">>
sk2 == <<"k","2">>
sIda == <<"I","d","a">>
sQogir == <<"Q","o","g","i","r">>
sMount == <<"m","o","u","n","t">>

\* what the user can type into the guess field
Drafts == {sEmpty, sSpace, sK2, sk2}

(***************************************************************************)
(* The documents json/<fname>.json the server holds.  "bad" parses as an   *)
(* object without a features list.                                         *)
(***************************************************************************)
Files == {"wa", "us", "bad"}

NoFile == "null"

Docs ==
  [ wa  |-> [ type |-> "FeatureCollection",
              geoquiz |-> [ titleProperty |-> "name",
                            altTitleProperties |-> <<"altName">>,
                            ignoredWords |-> <<sMount>>,
                            properties |-> <<
                              [ name |-> "country", level |-> "nominal" ],
                              [ name |-> "prominenceFt", level |-> "rational" ] >> ],
              features |-> <<
                [ id |-> 1, properties |-> [ name |-> sK2, altName |-> sQogir,
                                             country |-> <<"P","K">>,
                                             prominenceFt |-> 4020,
                                             elevationFt |-> 9000 ] ],
                [ id |-> 2, properties |-> [ name |-> sIda,
                                             country |-> <<"G","R">>,
                                             prominenceFt |-> 500 ] ],
                [ id |-> 4, properties |-> [ name |-> sK2,
                                             country |-> <<"C","N">>,
                                             prominenceFt |-> 1000,
                                             elevationFt |-> 8000 ] ] >> ],
    us  |-> [ type |-> "FeatureCollection",
              geoquiz |-> [ properties |-> <<
                              [ name |-> "country", level |-> "nominal" ],
                              [ name |-> "elevationFt", level |-> "rational" ] >> ],
              features |-> <<
                [ id |-> 2, properties |-> [ title |-> sIda,
                                             country |-> <<"U","S">> ] ],
                [ id |-> 3, properties |-> [ elevationFt |-> 9000 ] ] >> ],
    bad |-> [ type |-> "FeatureCollection" ] ]

HasFeatures(doc) == "features" \in DOMAIN doc

\* result?.geoquiz?.titleProperty ?? "title"
TitleProperty(doc) ==
  IF "geoquiz" \in DOMAIN doc /\ "titleProperty" \in DOMAIN doc.geoquiz
    THEN doc.geoquiz.titleProperty ELSE "title"

\* result?.geoquiz?.altTitleProperties ?? []
AltTitleProperties(doc) ==
  IF "geoquiz" \in DOMAIN doc /\ "altTitleProperties" \in DOMAIN doc.geoquiz
    THEN doc.geoquiz.altTitleProperties ELSE <<>>

\* data.geoquiz?.properties?.filter(p => p.level === level).map(p => p.name)
PropertiesOfLevel(doc, level) ==
  IF "geoquiz" \in DOMAIN doc /\ "properties" \in DOMAIN doc.geoquiz
    THEN { doc.geoquiz.properties[i].name :
             i \in { j \in 1..Len(doc.geoquiz.properties) :
                       doc.geoquiz.properties[j].level = level } }
    ELSE {}

\* result?.geoquiz?.ignoredWords ?? []
IgnoredWords(doc) ==
  IF "geoquiz" \in DOMAIN doc /\ "ignoredWords" \in DOMAIN doc.geoquiz
    THEN doc.geoquiz.ignoredWords ELSE <<>>

(***************************************************************************)
(* Feature objects.  res.json() builds new objects on every load: a        *)
(* feature object is the load that parsed it and its place in the          *)
(* document.                                                               *)
(***************************************************************************)
FeatureObject(load, fname, idx) == [load |-> load, file |-> fname, idx |-> idx]

Entity(o) == Docs[o.file].features[o.idx]

\* result.features of a parsed document
FeaturesOf(load, fname) ==
  [i \in 1..Len(Docs[fname].features) |-> FeatureObject(load, fname, i)]

(***************************************************************************)
(* Values and outcomes.  A property of a feature is a string or is not     *)
(* there (undefined).  A call returns a string or throws a TypeError.      *)
(***************************************************************************)
Absent == [type |-> "undefined", chars |-> <<>>]
StringValue(s) == [type |-> "string", chars |-> s]

Returned(s) == [threw |-> FALSE, value |-> s]
TypeError == [threw |-> TRUE, value |-> <<>>]

\* normalize called on a value: s.trim() of undefined throws
normalizeValue(value, ignoredWords) ==
  IF value.type = "string" THEN Returned(normalize(value.chars, ignoredWords))
  ELSE TypeError

\* answer.properties?.[property]
PropertyValue(properties, property) ==
  IF property \in DOMAIN properties THEN StringValue(properties[property])
  ELSE Absent

\* PropertyNames with the title property alone
TitleOnly(titleProperty, altTitleProperties) == <<titleProperty>>

\* [titleProperty, ...altTitleProperties]
PropertyNames(titleProperty, altTitleProperties) ==
  <<titleProperty>> \o altTitleProperties

\* IsDefined letting every value through to normalize
AlwaysDefined(value) == TRUE

\* value !== undefined
IsDefined(value) == value # Absent

\* the for loop of isMatch over the property names still to try: "true" or
\* "false" as returned, "TypeError" when normalize throws
RECURSIVE isMatchLoop(_, _, _, _)
isMatchLoop(guessNormalized, properties, names, ignoredWords) ==
  IF names = <<>> THEN "false"
  ELSE LET value == PropertyValue(properties, Head(names))
           rest  == isMatchLoop(guessNormalized, properties, Tail(names),
                                ignoredWords)
       IN IF IsDefined(value)
            THEN LET answerNormalized == normalizeValue(value, ignoredWords)
                 IN IF answerNormalized.threw THEN "TypeError"
                    ELSE IF guessNormalized = answerNormalized.value
                      THEN "true"
                    ELSE rest
            ELSE rest

\* isMatch on the properties of the answer
isMatchProperties(guess, properties, titleProperty, altTitleProperties, ignoredWords) ==
  isMatchLoop(normalize(guess, ignoredWords), properties,
              PropertyNames(titleProperty, altTitleProperties), ignoredWords)

isMatch(guess, answer, titleProperty, altTitleProperties, ignoredWords) ==
  isMatchProperties(guess, Entity(answer).properties, titleProperty,
                    altTitleProperties, ignoredWords) = "true"

(***************************************************************************)
(* JavaScript Set.                                                         *)
(***************************************************************************)
\* new Set(array): every distinct element once, in order of first occurrence
RECURSIVE SetFromArray(_)
SetFromArray(a) ==
  IF a = <<>> THEN <<>>
  ELSE LET init == SetFromArray(SubSeq(a, 1, Len(a) - 1))
           last == a[Len(a)]
       IN IF last \in Range(init) THEN init ELSE Append(init, last)

\* Set.prototype.has
Has(set, x) == x \in Range(set)

(***************************************************************************)
(* The state of the App component.                                         *)
(***************************************************************************)
VARIABLES
  saved,             \* localStorage item of this page: a list, or NoItem
  mounted,           \* the effects of the first render have run
  draft,             \* useState draft: null or a string
  guesses,           \* useState guesses: Set<string>
  correct,           \* useState correct: Set<Feature>
  data,              \* useState data: the loaded document or undefined
  file,              \* useState file
  inflight,          \* fetches started and not yet settled
  nextLoad,          \* number of the next fetch
  crashed,           \* a render has thrown: the component tree is gone
  prominenceCutoff,  \* useState of FilteredCorrectView
  elevationCutoff,   \* useState of FilteredCorrectView
  call               \* a call of normalize or isMatch looked at on its own:
                     \* its arguments and its outcome

vars == <<saved, mounted, draft, guesses, correct, data, file, inflight,
          nextLoad, crashed, prominenceCutoff, elevationCutoff, call>>

prominenceOptions == <<300, 400, 1000, 2000, 3000, 5000, 10000>>
elevationOptions == <<0, 8000, 9000, 10000, 11000, 12000, 13000, 14000>>

\* the options the user picks from in the model
ProminenceChoices == {prominenceOptions[1], prominenceOptions[3]}
ElevationChoices == {elevationOptions[1], elevationOptions[3]}

NoItem == [present |-> FALSE, list |-> <<>>]
Item(list) == [present |-> TRUE, list |-> list]

Null == [isNull |-> TRUE, value |-> <<>>]
Str(s) == [isNull |-> FALSE, value |-> s]

\* no call is looked at: the App runs
NoCall == [fn |-> "none"]

Undefined == [file |-> "undefined", load |-> 0]
Document(load, fname) == [file |-> fname, load |-> load]

\* a JavaScript value used as a condition: null and "" are falsy
Truthy(d) == ~d.isNull /\ d.value # <<>>

\* what localStorage can hold when the page opens: nothing, or a list
\* (written by an earlier session, or by anything else) with or without
\* repeated strings
SavedItems ==
  {NoItem, Item(<<sK2>>), Item(<<sK2, sK2>>), Item(<<sIda, sK2, sIda>>)}

\* RestoreGuesses keeping the parsed list as it is (an array state)
RestoreWithoutDedup(item) ==
  IF ~item.present THEN <<>> ELSE item.list

\* the initializer of useState guesses
RestoreGuesses(item) ==
  IF ~item.present THEN <<>> ELSE SetFromArray(item.list)

Init ==
  /\ saved \in SavedItems
  /\ mounted = FALSE
  /\ draft = Null
  /\ guesses = RestoreGuesses(saved)
  /\ correct = <<>>
  /\ data = Undefined
  /\ file \in Files \cup {NoFile}
  /\ inflight = {}
  /\ nextLoad = 1
  /\ crashed = FALSE
  /\ prominenceCutoff = prominenceOptions[1]
  /\ elevationCutoff = elevationOptions[1]
  /\ call = NoCall

\* processServerFile up to the fetch: the callbacks close over the guesses
\* and correct of the render that runs the effect
processServerFile(fname) ==
  IF fname = NoFile
    THEN UNCHANGED <<inflight, nextLoad>>
    ELSE /\ inflight' = inflight \cup
              {[id |-> nextLoad, file |-> fname,
                guesses |-> guesses, correct |-> correct]}
         /\ nextLoad' = nextLoad + 1

\* the effects of the first render: persist the guesses, load the file
Mount ==
  /\ ~mounted
  /\ mounted' = TRUE
  /\ saved' = Item(guesses)
  /\ processServerFile(file)
  /\ UNCHANGED <<draft, guesses, correct, data, file, crashed,
                 prominenceCutoff, elevationCutoff, call>>

\* The file state changes (setFile is the setter of useState file; no
\* handler of App calls it, the effect on [file] is the code that reacts to
\* it): the effect runs processServerFile again, a quiz switch within one
\* session.  null starts no fetch.
setFile(fname) ==
  /\ mounted /\ ~crashed
  /\ fname # file
  /\ nextLoad <= MaxLoads
  /\ file' = fname
  /\ processServerFile(fname)
  /\ UNCHANGED <<saved, mounted, draft, guesses, correct, data, crashed,
                 prominenceCutoff, elevationCutoff, call>>

\* FormRendered without the early return on !data
AlwaysRendered(d) == TRUE

\* the form and the views are rendered only once data is set
FormRendered(d) == d # Undefined

\* data.features of the loaded document
Features(d) == FeaturesOf(d.load, d.file)

\* AnswersForGuess stopping at the first feature that matches
FirstAnswerForGuess(guess, features, doc) ==
  LET hits == { i \in 1..Len(features) :
                  isMatch(guess, features[i], TitleProperty(doc),
                          AltTitleProperties(doc), IgnoredWords(doc)) }
  IN IF hits = {} THEN <<>>
     ELSE <<features[CHOOSE i \in hits : \A j \in hits : i <= j]>>

\* features.filter(feature => isMatch(guess, feature, ...))
AnswersForGuess(guess, features, doc) ==
  SelectSeq(features,
            LAMBDA feature : isMatch(guess, feature, TitleProperty(doc),
                                     AltTitleProperties(doc), IgnoredWords(doc)))

\* Array.from(guesses).reduce((acc, guess) => [...acc, ...answersForGuess], [])
RECURSIVE Answers(_, _, _)
Answers(gs, features, doc) ==
  IF gs = <<>> THEN <<>>
  ELSE AnswersForGuess(Head(gs), features, doc) \o Answers(Tail(gs), features, doc)

\* new Set([...answers, ...correct.values()])
AddCorrect(answers, old) == SetFromArray(answers \o old)

\* Accepted comparing the canonical forms instead of the raw strings
AcceptedByCanonical(d, gs) ==
  /\ Truthy(d)
  /\ \A i \in 1..Len(gs) : normalize(gs[i], <<>>) # normalize(d.value, <<>>)

\* draft && !guesses.has(draft)
Accepted(d, gs) == Truthy(d) /\ ~Has(gs, d.value)

\* AddGuess putting the draft behind the guesses already held
AppendGuess(s, gs) == SetFromArray(gs \o <<s>>)

\* AddGuess forgetting the guesses already held
ReplaceGuesses(s, gs) == <<s>>

\* new Set([draft, ...guesses.values()])
AddGuess(s, gs) == SetFromArray(<<s>> \o gs)

handleInput(value) ==
  /\ mounted /\ ~crashed
  /\ FormRendered(data)
  /\ draft' = Str(value)
  /\ UNCHANGED <<saved, mounted, guesses, correct, data, file, inflight,
                 nextLoad, crashed, prominenceCutoff, elevationCutoff, call>>

handleSubmit ==
  /\ mounted /\ ~crashed
  /\ FormRendered(data)
  /\ IF Accepted(draft, guesses)
       THEN /\ Len(guesses) < MaxLedger
            /\ guesses' = AddGuess(draft.value, guesses)
            /\ saved' = Item(guesses')
            /\ LET answers == IF data = Undefined THEN <<>>
                              ELSE AnswersForGuess(draft.value, Features(data),
                                                   Docs[data.file])
               IN IF Len(answers) > 0
                    THEN /\ correct' = AddCorrect(answers, correct)
                         /\ draft' = Null
                    ELSE UNCHANGED <<correct, draft>>
       ELSE /\ draft' = Null
            /\ UNCHANGED <<saved, guesses, correct>>
  /\ UNCHANGED <<mounted, data, file, inflight, nextLoad, crashed,
                 prominenceCutoff, elevationCutoff, call>>

\* the fetch of l resolved and res.json() parsed the document
LoadResult(l) ==
  /\ mounted /\ ~crashed
  /\ l \in inflight
  /\ inflight' = inflight \ {l}
  /\ LET result == Docs[l.file]
     IN IF HasFeatures(result)
          THEN LET answers == Answers(l.guesses, FeaturesOf(l.id, l.file), result)
               IN /\ correct' = IF Len(answers) > 0
                                  THEN AddCorrect(answers, l.correct)
                                  ELSE correct
                  /\ data' = Document(l.id, l.file)
                  /\ UNCHANGED crashed
          ELSE IF l.guesses = <<>>
            \* reduce never calls features.filter: setData(result), and the
            \* next render throws on data.features.length
            THEN /\ data' = Document(l.id, l.file)
                 /\ crashed' = TRUE
                 /\ UNCHANGED correct
            \* features.filter throws a TypeError before any state is set
            ELSE UNCHANGED <<correct, data, crashed>>
  /\ UNCHANGED <<saved, mounted, draft, guesses, file, nextLoad,
                 prominenceCutoff, elevationCutoff, call>>

\* the fetch of l was rejected, or res.json() failed: alert(error)
LoadError(l) ==
  /\ mounted /\ ~crashed
  /\ l \in inflight
  /\ inflight' = inflight \ {l}
  /\ UNCHANGED <<saved, mounted, draft, guesses, correct, data, file,
                 nextLoad, crashed, prominenceCutoff, elevationCutoff, call>>

setProminenceCutoff(value) ==
  /\ mounted /\ ~crashed
  /\ FormRendered(data)
  /\ value # prominenceCutoff
  /\ prominenceCutoff' = value
  /\ UNCHANGED <<saved, mounted, draft, guesses, correct, data, file,
                 inflight, nextLoad, crashed, elevationCutoff, call>>

setElevationCutoff(value) ==
  /\ mounted /\ ~crashed
  /\ FormRendered(data)
  /\ value # elevationCutoff
  /\ elevationCutoff' = value
  /\ UNCHANGED <<saved, mounted, draft, guesses, correct, data, file,
                 inflight, nextLoad, crashed, prominenceCutoff, call>>

Next ==
  \/ Mount
  \/ \E fname \in Files \cup {NoFile} : setFile(fname)
  \/ \E value \in Drafts : handleInput(value)
  \/ handleSubmit
  \/ \E l \in inflight : LoadResult(l)
  \/ \E l \in inflight : LoadError(l)
  \/ \E value \in ProminenceChoices : setProminenceCutoff(value)
  \/ \E value \in ElevationChoices : setElevationCutoff(value)

Spec == Init /\ [][Next]_vars

(***************************************************************************)
(* The statistics views.  A view is a function of its props: the features  *)
(* of the collection (all), the Correct Set (correct) and a property.      *)
(* A JavaScript number is an integer, NaN or Infinity.                     *)
(***************************************************************************)
NaN == [nan |-> TRUE, inf |-> FALSE, n |-> 0]
Infinity == [nan |-> FALSE, inf |-> TRUE, n |-> 0]
Num(n) == [nan |-> FALSE, inf |-> FALSE, n |-> n]

\* sum + feature.properties?.[property]: undefined makes the sum NaN
Plus(sum, properties, property) ==
  IF sum.nan \/ property \notin DOMAIN properties THEN NaN
  ELSE Num(sum.n + properties[property])

\* features.reduce((sum, feature) => sum + feature.properties?.[property], 0)
RECURSIVE SumOf(_, _)
SumOf(features, property) ==
  IF features = <<>> THEN Num(0)
  ELSE Plus(SumOf(SubSeq(features, 1, Len(features) - 1), property),
            Entity(features[Len(features)]).properties, property)

\* Math.round(a / b * 100) for a >= 0 and b > 0: halves go up
RoundPercent(a, b) == (200 * a + b) \div (2 * b)

\* what RationalPropertyView renders above its ranked list: the sentence
\* with the percentage, or nothing
RationalPropertyView(correctFeatures, all, property) ==
  LET total == SumOf(all, property)
      sumCorrect == SumOf(correctFeatures, property)
      percentage == IF sumCorrect.nan \/ total.nan \/ total.n = 0 THEN NaN
                    ELSE Num(RoundPercent(sumCorrect.n, total.n))
  IN IF ~total.nan /\ total.n > 0
       THEN [shown |-> TRUE, percentage |-> percentage]
       ELSE [shown |-> FALSE, percentage |-> NaN]

\* f.properties?.[property] of a feature object
ValueOf(f, property) == PropertyValue(Entity(f).properties, property)

\* the number of features whose property is val
CountOf(features, property, val) ==
  Cardinality({ i \in 1..Len(features) : ValueOf(features[i], property) = val })

\* the two Maps of NominalPropertyView and the two numbers of its sentence
\* "cover <covered> of <values> values"
NominalPropertyView(correctFeatures, all, property) ==
  LET bins == { ValueOf(all[i], property) : i \in 1..Len(all) }
      binCounts == [bin \in bins |-> CountOf(all, property, bin)]
      keys == bins \cup { ValueOf(correctFeatures[i], property) : i \in 1..Len(correctFeatures) }
      correctBinCounts == [key \in keys |-> CountOf(correctFeatures, property, key)]
  IN [ binCounts |-> binCounts,
       correctBinCounts |-> correctBinCounts,
       covered |-> Cardinality({ key \in keys : correctBinCounts[key] > 0 }),
       values |-> Cardinality(bins) ]

\* Math.round(a / b * 100) of two lengths: 0 / 0 is NaN, a / 0 is Infinity
Percentage(a, b) ==
  IF b = 0 THEN (IF a = 0 THEN NaN ELSE Infinity) ELSE Num(RoundPercent(a, b))

\* the sentence "You have named <size> (<percentage>%) of <length>" of App:
\* always rendered
Coverage(correctFeatures, all) ==
  [ shown |-> TRUE, size |-> Len(correctFeatures), length |-> Len(all),
    percentage |-> Percentage(Len(correctFeatures), Len(all)) ]

\* ParseInt reading an undefined value as 0
ParseIntOrZero(properties, property) ==
  IF property \in DOMAIN properties THEN Num(properties[property]) ELSE Num(0)

\* parseInt(feature.properties?.[property]): NaN for undefined; the
\* documents hold integers, which parseInt returns as they are
ParseInt(properties, property) ==
  IF property \in DOMAIN properties THEN Num(properties[property]) ELSE NaN

\* x >= cutoff: false for NaN
AtLeast(x, cutoff) == ~x.nan /\ x.n >= cutoff

\* the predicate of FilteredCorrectView under the two cutoffs
predicate(feature, prominence, elevation) ==
  /\ AtLeast(ParseInt(Entity(feature).properties, "prominenceFt"), prominence)
  /\ AtLeast(ParseInt(Entity(feature).properties, "elevationFt"), elevation)

\* the two filtered lists of FilteredCorrectView and its heading
\* "<n> (<percentage>%) of <m> filtered peaks": always rendered
FilteredCorrectView(correctFeatures, all, prominence, elevation) ==
  LET correctFiltered ==
        SelectSeq(correctFeatures, LAMBDA f : predicate(f, prominence, elevation))
      allFiltered ==
        SelectSeq(all, LAMBDA f : predicate(f, prominence, elevation))
  IN [ correctFiltered |-> correctFiltered,
       allFiltered |-> allFiltered,
       shown |-> TRUE,
       percentage |-> Percentage(Len(correctFiltered), Len(allFiltered)) ]

\* App renders the views: data is set and the render has not thrown
ViewsRendered == data # Undefined /\ HasFeatures(Docs[data.file]) /\ ~crashed

(***************************************************************************)
(* normalize on its own: it is called on a string put together from at     *)
(* most MaxPieces pieces (or on undefined), and once more on what it       *)
(* returned.                                                               *)
(***************************************************************************)
appVars == <<saved, mounted, draft, guesses, correct, data, file, inflight,
             nextLoad, crashed, prominenceCutoff, elevationCutoff>>

\* the App before its first render, nothing saved and no file asked for
AppAtRest ==
  /\ saved = NoItem
  /\ mounted = FALSE
  /\ draft = Null
  /\ guesses = <<>>
  /\ correct = <<>>
  /\ data = Undefined
  /\ file = NoFile
  /\ inflight = {}
  /\ nextLoad = 1
  /\ crashed = FALSE
  /\ prominenceCutoff = prominenceOptions[1]
  /\ elevationCutoff = elevationOptions[1]

pDash == <<"-">>
pMtDot == <<"M","t",".">>
pMount == <<"M","o","u","n","t">>
pSt == <<"s","t">>
pPena == <<"P","e","U+00F1","a">>
pPENA == <<"P","E","N","U+0303","A">>
sSaint == <<"s","a","i","n","t">>
sPeak == <<"p","e","a","k">>

Pieces == {sSpace, pDash, pMtDot, pMount, pSt, sIda, pPena, pPENA}

PieceLists == UNION { [1..n -> Pieces] : n \in 0..MaxPieces }

RECURSIVE Concat(_)
Concat(pieces) ==
  IF pieces = <<>> THEN <<>> ELSE Head(pieces) \o Concat(Tail(pieces))

\* the ignoredWords lists of the quiz configurations tried
WordLists == {<<>>, <<sMount>>, <<sMount, sPeak>>, <<sSaint>>}

InitNormalize ==
  /\ AppAtRest
  /\ \E pieces \in PieceLists, ignoredWords \in WordLists :
       \E s \in {StringValue(Concat(pieces))}
                  \cup (IF pieces = <<>> THEN {Absent} ELSE {}) :
         call = [fn |-> "normalize", pieces |-> pieces, s |-> s,
                 ignoredWords |-> ignoredWords, calls |-> 0,
                 out |-> Returned(<<>>)]

\* normalize(s, ignoredWords)
CallNormalize ==
  /\ call.fn = "normalize"
  /\ call.calls = 0
  /\ call' = [call EXCEPT !.calls = 1,
                          !.out = normalizeValue(call.s, call.ignoredWords)]
  /\ UNCHANGED appVars

\* normalize(normalize(s, ignoredWords), ignoredWords): s becomes what the
\* first call returned
CallNormalizeAgain ==
  /\ call.fn = "normalize"
  /\ call.calls = 1
  /\ ~call.out.threw
  /\ LET t == StringValue(call.out.value)
     IN call' = [call EXCEPT !.calls = 2, !.pieces = <<call.out.value>>,
                             !.s = t,
                             !.out = normalizeValue(t, call.ignoredWords)]
  /\ UNCHANGED appVars

NextNormalize == CallNormalize \/ CallNormalizeAgain

SpecNormalize == InitNormalize /\ [][NextNormalize]_vars

(***************************************************************************)
(* isMatch on its own: one guess against the properties of one feature,    *)
(* under one quiz configuration.                                           *)
(***************************************************************************)
Attributes == {"name", "altName", "oldName"}

sida == <<"i","d","a">>
sMtIda == pMtDot \o sSpace \o sIda
sMountIda == pMount \o sSpace \o sIda

\* the values a property of the feature can hold
AttributeValues == {sIda, sMountIda, pMount, pDash}

\* the properties of a feature: any of the attributes, each with a value
PropertyRecords == UNION { [D -> AttributeValues] : D \in SUBSET Attributes }

MatchGuesses == {sSpace, sida, sMtIda, pMount}

\* the lists of distinct attributes
AttributeLists ==
  { names \in UNION { [1..n -> Attributes] : n \in 0..Cardinality(Attributes) } :
      \A i, j \in 1..Len(names) : names[i] = names[j] => i = j }

InitIsMatch ==
  /\ AppAtRest
  /\ \E guess \in MatchGuesses, properties \in PropertyRecords,
        names \in AttributeLists \ {<<>>}, ignoredWords \in {<<>>, <<sMount>>} :
       call = [fn |-> "isMatch", guess |-> guess, properties |-> properties,
               titleProperty |-> Head(names),
               altTitleProperties |-> Tail(names),
               ignoredWords |-> ignoredWords, calls |-> 0, out |-> "false"]

\* isMatch(guess, answer, titleProperty, altTitleProperties, ignoredWords)
CallIsMatch ==
  /\ call.fn = "isMatch"
  /\ call.calls = 0
  /\ call' = [call EXCEPT !.calls = 1,
                          !.out = isMatchProperties(call.guess, call.properties,
                                      call.titleProperty, call.altTitleProperties,
                                      call.ignoredWords)]
  /\ UNCHANGED appVars

NextIsMatch == CallIsMatch

SpecIsMatch == InitIsMatch /\ [][NextIsMatch]_vars

(***************************************************************************)
(* RankedList on its own.  Its props are lists of features; a feature is   *)
(* the entity the document holds, [id, properties].                        *)
(***************************************************************************)
\* the comparator without its direction
compareAscending(ap, bp, asc) == IF ap = bp THEN 0 ELSE IF ap < bp THEN -1 ELSE 1

\* the comparator of sortBy
compare(ap, bp, asc) ==
  (IF asc THEN 1 ELSE -1) * (IF ap = bp THEN 0 ELSE IF ap < bp THEN -1 ELSE 1)

\* [...features].sort(comparator): the sort is stable, a feature goes behind
\* the features that do not compare greater
RECURSIVE sortBy(_, _, _)
sortBy(features, property, asc) ==
  IF features = <<>> THEN <<>>
  ELSE LET sorted == sortBy(SubSeq(features, 1, Len(features) - 1), property, asc)
           last == features[Len(features)]
           k == Cardinality({ i \in 1..Len(sorted) :
                  compare(sorted[i].properties[property],
                          last.properties[property], asc) <= 0 })
       IN SubSeq(sorted, 1, k) \o <<last>> \o SubSeq(sorted, k + 1, Len(sorted))

\* slice(0, n)
Slice(seq, n) == SubSeq(seq, 1, IF n < Len(seq) THEN n ELSE Len(seq))

\* sorted[Math.min(9, sorted.length - 1)]?.properties?.[property]: undefined
\* for an empty list, it then compares like NaN
Cutoff(sorted, property) ==
  IF sorted = <<>> THEN NaN
  ELSE Num(sorted[IF TopCount < Len(sorted) THEN TopCount ELSE Len(sorted)]
             .properties[property])

\* AtOrAbove without the features that tie with the cutoff
StrictlyAbove(value, cutoff) == ~cutoff.nan /\ value > cutoff.n

\* value >= cutoff
AtOrAbove(value, cutoff) == ~cutoff.nan /\ value >= cutoff.n

\* value <= cutoff
AtOrBelow(value, cutoff) == ~cutoff.nan /\ value <= cutoff.n

\* the two lists RankedList renders and the numbers of its two sentences
\* "Includes <n> of the top <m>", "Includes <n> of the bottom <m>"
RankedList(correctFeatures, all, property) ==
  LET definedCorrect ==
        SelectSeq(correctFeatures, LAMBDA f : property \in DOMAIN f.properties)
      definedAll == SelectSeq(all, LAMBDA f : property \in DOMAIN f.properties)
      lowestOverallTenCutoff == Cutoff(sortBy(definedAll, property, TRUE), property)
      highestOverallTenCutoff == Cutoff(sortBy(definedAll, property, FALSE), property)
      above(features) ==
        Len(SelectSeq(features, LAMBDA f :
              AtOrAbove(f.properties[property], highestOverallTenCutoff)))
      below(features) ==
        Len(SelectSeq(features, LAMBDA f :
              AtOrBelow(f.properties[property], lowestOverallTenCutoff)))
  IN [ lowestCorrectTen |-> Slice(sortBy(definedCorrect, property, TRUE), TopCount),
       highestCorrectTen |-> Slice(sortBy(definedCorrect, property, FALSE), TopCount),
       highestIncludes |-> above(definedCorrect),
       highestTop |-> above(definedAll),
       lowestIncludes |-> below(definedCorrect),
       lowestBottom |-> below(definedAll) ]

\* the features of the lists tried: per value, and for no value, some
\* features of the collection and some members of the Correct Set, which
\* may or may not be features of the collection
RankValues == {1, 2, 3}
CopyCounts == {0, 1, 2, MaxCopies}

\* feature number j of those with value v (0: no value)
RankFeature(v, j) ==
  [ id |-> 100 * v + j,
    properties |-> IF v = 0 THEN [title |-> sIda] ELSE [title |-> sIda, rank |-> v] ]

\* the first n[v] features of every value, the values in the order 0, 2, 3, 1
RankFeatures(n) ==
  LET Block(v) == [j \in 1..n[v] |-> RankFeature(v, j)]
  IN Block(0) \o Block(2) \o Block(3) \o Block(1)

InitRankedList ==
  /\ AppAtRest
  /\ \E inAll \in [RankValues -> CopyCounts], inCorrect \in [RankValues -> CopyCounts],
        u \in {0, 1}, uc \in {0, 1} :
       call = [fn |-> "RankedList",
               correct |-> RankFeatures([v \in 0..3 |-> IF v = 0 THEN uc ELSE inCorrect[v]]),
               all |-> RankFeatures([v \in 0..3 |-> IF v = 0 THEN u ELSE inAll[v]]),
               property |-> "rank", calls |-> 0,
               out |-> RankedList(<<>>, <<>>, "rank")]

\* <RankedList correct={correct} all={all} property={property} />
CallRankedList ==
  /\ call.fn = "RankedList"
  /\ call.calls = 0
  /\ call' = [call EXCEPT !.calls = 1,
                          !.out = RankedList(call.correct, call.all, call.property)]
  /\ UNCHANGED appVars

NextRankedList == CallRankedList

SpecRankedList == InitRankedList /\ [][NextRankedList]_vars

(***************************************************************************)
(* Vocabulary of the properties.                                           *)
(***************************************************************************)
NoDuplicates(seq) == \A i, j \in 1..Len(seq) : seq[i] = seq[j] => i = j

FirstIndex(seq, x) == CHOOSE i \in 1..Len(seq) :
                        seq[i] = x /\ \A j \in 1..(i - 1) : seq[j] # x

\* the features of the loaded collection; none when unloaded or when the
\* document has no features list
LoadedFeatures(d) ==
  IF d = Undefined \/ ~HasFeatures(Docs[d.file]) THEN <<>> ELSE Features(d)

EntityIds(features) == { Entity(features[i]).id : i \in 1..Len(features) }

\* the ids of the features of d that some guess of gs matches
MatchedIds(gs, d) ==
  { Entity(o).id : o \in { f \in Range(LoadedFeatures(d)) :
      \E i \in 1..Len(gs) :
        isMatch(gs[i], f, TitleProperty(Docs[d.file]),
                AltTitleProperties(Docs[d.file]), IgnoredWords(Docs[d.file])) } }

\* l settles in this step by setting the data to its document
Completes(l) ==
  /\ l \in inflight /\ l \notin inflight'
  /\ data' = Document(l.id, l.file)

Blank(d) == d.isNull \/ Trim(d.value) = <<>>

C4_FailedLoadLeavesState ==
  [][\A l \in inflight :
       (LoadError(l) \/ (LoadResult(l) /\ ~HasFeatures(Docs[l.file])))
         => UNCHANGED <<data, guesses, correct>>]_vars

(***************************************************************************)
(* C5: the ledger never holds a string twice; submitting a stored string   *)
(* leaves the ledger as it is, and submitting a non-empty string that no   *)
(* stored guess equals verbatim adds it as one new entry, whatever its     *)
(* canonical form.                                                         *)
(***************************************************************************)
C5_LedgerVerbatimDedup ==
  /\ []NoDuplicates(guesses)
  /\ [][handleSubmit =>
          IF draft.isNull \/ draft.value \in Range(guesses)
            THEN guesses' = guesses
            ELSE draft.value # <<>> =>
                   /\ Len(guesses') = Len(guesses) + 1
                   /\ draft.value \in Range(guesses')
                   /\ Range(guesses) \subseteq Range(guesses')]_vars

\* the ledger holds two guesses with the same canonical form
C5_Witness ==
  \E i, j \in 1..Len(guesses) :
    /\ i # j
    /\ normalize(guesses[i], <<>>) = normalize(guesses[j], <<>>)

(***************************************************************************)
(* C6: submitting an empty or whitespace-only guess changes neither the    *)
(* ledger nor the Correct Set.                                             *)
(***************************************************************************)
C6_BlankGuessIsNoOp ==
  [][(handleSubmit /\ Blank(draft)) => UNCHANGED <<guesses, correct>>]_vars

(***************************************************************************)
(* C7: while no collection is loaded no guess is accepted into the ledger  *)
(* (the form is not rendered: a submission is rejected).                   *)
(***************************************************************************)
C7_NoGuessWhileUnloaded ==
  [][(mounted /\ data = Undefined) => guesses' = guesses]_vars

\* unloaded, with a restored ledger, waiting for the first load
C7_Witness ==
  mounted /\ data = Undefined /\ guesses # <<>> /\ inflight # {}

(***************************************************************************)
(* C8: the ledger restored from a persisted list holds each distinct       *)
(* string of the list exactly once, in the order of first occurrence.      *)
(***************************************************************************)
C8_RestoreDedups ==
  (~mounted /\ saved.present) =>
    /\ NoDuplicates(guesses)
    /\ Range(guesses) = Range(saved.list)
    /\ \A i, j \in 1..Len(guesses) :
         i < j => FirstIndex(saved.list, guesses[i]) < FirstIndex(saved.list, guesses[j])

\* restored from a list that repeats a string
C8_Witness ==
  /\ ~mounted /\ saved.present
  /\ ~NoDuplicates(saved.list)
  /\ Len(guesses) > 1

(***************************************************************************)
(* C9: no step removes a guess from the ledger.                            *)
(***************************************************************************)
C9_LedgerOnlyGrows ==
  [][Range(guesses) \subseteq Range(guesses')]_vars

\* a restored ledger that has been added to, with a collection loaded and
\* a cutoff moved
C9_Witness ==
  /\ saved.present /\ Len(guesses) > 1
  /\ guesses[1] \in {sk2, sSpace}
  /\ data # Undefined
  /\ prominenceCutoff # prominenceOptions[1]

Matched == call.fn = "isMatch" /\ call.calls = 1

\* the attributes the configuration names as title or alternate title
ConfiguredNames == {call.titleProperty} \cup Range(call.altTitleProperties)

\* the configured attributes the feature defines whose canonical form is
\* the canonical form of the guess
MatchingNames ==
  { a \in ConfiguredNames \cap DOMAIN call.properties :
      normalize(call.properties[a], call.ignoredWords)
        = normalize(call.guess, call.ignoredWords) }

\* the orderings of a list of distinct names
Orderings(names) ==
  { p \in [1..Len(names) -> Range(names)] : Range(p) = Range(names) }

C12_EmptyGuessMatchesNothing ==
  (Matched /\ normalize(call.guess, call.ignoredWords) = <<>>)
    => call.out # "true"

(***************************************************************************)
(* C13: a feature that defines none of the configured title and            *)
(* alternate-title attributes is matched by no guess, and isMatch returns  *)
(* without throwing.                                                       *)
(***************************************************************************)
C13_NoTitleNoMatch ==
  (Matched /\ ConfiguredNames \cap DOMAIN call.properties = {})
    => call.out = "false"

\* the feature has none of the configured attributes, and the guess is the
\* name it holds under an attribute that is not configured
C13_Witness ==
  /\ Matched
  /\ ConfiguredNames \cap DOMAIN call.properties = {}
  /\ \E a \in DOMAIN call.properties :
       normalize(call.properties[a], call.ignoredWords)
         = normalize(call.guess, call.ignoredWords)
  /\ call.out = "false"

(***************************************************************************)
(* Vocabulary of the normalize properties.                                 *)
(***************************************************************************)
\* normalize was called n times, the first time on a string
Normalized(n) ==
  call.fn = "normalize" /\ call.calls = n /\ call.pieces # <<>>

\* the canonical form of a string under the ignoredWords of the call
Canonical(s) == normalizeValue(StringValue(s), call.ignoredWords)

\* piece i stands alone: white space or an end of the string on both sides
IsToken(pieces, i) ==
  /\ i = 1 \/ pieces[i - 1] = sSpace
  /\ i = Len(pieces) \/ pieces[i + 1] = sSpace

\* the pieces with every token "Mt." written out as "Mount"
WrittenOut(pieces) ==
  [i \in 1..Len(pieces) |->
     IF pieces[i] = pMtDot /\ IsToken(pieces, i) THEN pMount ELSE pieces[i]]

\* a character without its case and without its diacritical mark
PlainChar(c) ==
  IF c \in Range(UpperLetters) THEN <<LowerLetters[IndexOf(UpperLetters, c)]>>
  ELSE IF c \in {"U+00F1", "U+00D1"} THEN <<"n">>
  ELSE IF c = "U+0303" THEN <<>>
  ELSE <<c>>

\* a string in lower case and without diacritical marks
RECURSIVE Plain(_)
Plain(s) == IF s = <<>> THEN <<>> ELSE PlainChar(Head(s)) \o Plain(Tail(s))

(***************************************************************************)
(* C14: normalize is idempotent: called on what it returned, with the same *)
(* ignoredWords, it returns it unchanged.                                  *)
(***************************************************************************)
C14_NormalizeIdempotent ==
  (call.fn = "normalize" /\ call.calls = 2) => call.out = Returned(call.s.chars)

(***************************************************************************)
(* C15: a string with "Mt." and the same string with "Mount" in its place  *)
(* have the same canonical form, whatever the ignoredWords.                *)
(***************************************************************************)
C15_AbbreviationFolded ==
  Normalized(1) => call.out = Canonical(Concat(WrittenOut(call.pieces)))

(***************************************************************************)
(* C16: a token of ignoredWords added in front of or behind a string does  *)
(* not change its canonical form; with ignoredWords mount and peak,        *)
(* "Mount Ida" has the canonical form of "Ida".                            *)
(***************************************************************************)
C16_IgnoredWordsIgnored ==
  Normalized(1) =>
    /\ \A i \in 1..Len(call.ignoredWords) :
         /\ Canonical(call.ignoredWords[i] \o sSpace \o call.s.chars) = call.out
         /\ Canonical(call.s.chars \o sSpace \o call.ignoredWords[i]) = call.out
    /\ (call.ignoredWords = <<sMount, sPeak>> /\ call.s.chars = sMountIda)
         => call.out = Canonical(sIda)

(***************************************************************************)
(* C17: strings that differ only in the case of their letters or in        *)
(* diacritical marks on their letters have the same canonical form.        *)
(***************************************************************************)
C17_CaseAndMarksFolded ==
  Normalized(1) => call.out = Canonical(Plain(call.s.chars))

\* "Peña" and "PEÑA" (the latter with a combining tilde), side by side
C17_Witness ==
  /\ Normalized(1)
  /\ call.pieces = <<pPena, sSpace, pPENA>>
  /\ call.out = Returned(<<"p","e","n","a"," ","p","e","n","a">>)

(***************************************************************************)
(* C18: normalize returns a string for every input and never throws; for   *)
(* undefined it returns the empty string.                                  *)
(***************************************************************************)
C18_NormalizeTotal ==
  (call.fn = "normalize" /\ call.calls >= 1) =>
    /\ ~call.out.threw
    /\ call.s = Absent => call.out = Returned(<<>>)

(***************************************************************************)
(* Vocabulary of the statistics properties.                                *)
(***************************************************************************)
\* the values of the property over the features: the bins
BinsOf(features, property) ==
  { ValueOf(features[i], property) : i \in 1..Len(features) }

\* the features whose property is val
Having(features, property, val) ==
  { i \in 1..Len(features) : ValueOf(features[i], property) = val }

\* the sum of the property over the features that have it
RECURSIVE Total(_, _)
Total(features, property) ==
  IF features = <<>> THEN 0
  ELSE Total(Tail(features), property)
       + (IF property \in DOMAIN Entity(Head(features)).properties
            THEN Entity(Head(features)).properties[property] ELSE 0)

C20_RationalProportion ==
  ViewsRendered =>
    \A property \in PropertiesOfLevel(Docs[data.file], "rational") :
      LET all == Features(data)
          view == RationalPropertyView(correct, all, property)
          sumAll == Total(all, property)
          sumCorrect == Total(correct, property)
      IN IF sumAll = 0 THEN ~view.shown
         ELSE /\ view.shown
              /\ view.percentage = Num((200 * sumCorrect + sumAll) \div (2 * sumAll))

(***************************************************************************)
(* Vocabulary of the coverage and filter properties.                       *)
(***************************************************************************)
\* the coverage sentence and the filtered view of the current state
CoverageNow == Coverage(correct, Features(data))

FilteredNow ==
  FilteredCorrectView(correct, Features(data), prominenceCutoff, elevationCutoff)

\* a percentage that is a number
IsFinite(x) == ~x.nan /\ ~x.inf

(***************************************************************************)
(* C21: a percentage whose denominator is zero is left out: the overall    *)
(* coverage when the collection has no features, the filtered coverage     *)
(* when the filter leaves no feature; a percentage that is shown is a      *)
(* number, never NaN.                                                      *)
(***************************************************************************)
C21_DenominatorsGuarded ==
  ViewsRendered =>
    /\ CoverageNow.length = 0 => ~CoverageNow.shown
    /\ CoverageNow.shown => IsFinite(CoverageNow.percentage)
    /\ Len(FilteredNow.allFiltered) = 0 => ~FilteredNow.shown
    /\ FilteredNow.shown => IsFinite(FilteredNow.percentage)


(***************************************************************************)
(* RankedList: the vocabulary of its properties.                           *)
(***************************************************************************)
Ranked == call.fn = "RankedList" /\ call.calls = 1

\* the features of a list that have the ranked attribute, and their values
DefinedIn(features) ==
  { i \in 1..Len(features) : call.property \in DOMAIN features[i].properties }
RankOf(f) == f.properties[call.property]
RanksIn(features) == { RankOf(features[i]) : i \in DefinedIn(features) }
CountWhere(features, Test(_)) ==
  Cardinality({ i \in DefinedIn(features) : Test(RankOf(features[i])) })
SmallerOf(a, b) == IF a < b THEN a ELSE b

\* c is the value of the feature ranked TopCount-th from the top (from the
\* bottom) of the features of all that have a value, the last one when
\* there are fewer
IsTopCutoff(c) ==
  LET rank == SmallerOf(TopCount, Cardinality(DefinedIn(call.all)))
  IN /\ CountWhere(call.all, LAMBDA v : v > c) < rank
     /\ rank <= CountWhere(call.all, LAMBDA v : v >= c)
IsBottomCutoff(c) ==
  LET rank == SmallerOf(TopCount, Cardinality(DefinedIn(call.all)))
  IN /\ CountWhere(call.all, LAMBDA v : v < c) < rank
     /\ rank <= CountWhere(call.all, LAMBDA v : v <= c)

\* C22: the cutoff of a ranking is the value of the tenth-ranked feature
\* among those of the collection that have the value (of the last one when
\* fewer than ten have it); the list reports N of M, M the features of the
\* collection at or beyond the cutoff, ties included, N those of them that
\* are in the Correct Set; so M is at least min(10, features with a value).
C22_RankingCutoff ==
  Ranked =>
    /\ \A c \in RanksIn(call.all) :
         /\ IsTopCutoff(c) =>
              /\ call.out.highestTop = CountWhere(call.all, LAMBDA v : v >= c)
              /\ call.out.highestIncludes = CountWhere(call.correct, LAMBDA v : v >= c)
         /\ IsBottomCutoff(c) =>
              /\ call.out.lowestBottom = CountWhere(call.all, LAMBDA v : v <= c)
              /\ call.out.lowestIncludes = CountWhere(call.correct, LAMBDA v : v <= c)
    /\ (\E c \in RanksIn(call.all) : IsTopCutoff(c))
         \/ (RanksIn(call.all) = {} /\ call.out.highestTop = 0
               /\ call.out.highestIncludes = 0)
    /\ (\E c \in RanksIn(call.all) : IsBottomCutoff(c))
         \/ (RanksIn(call.all) = {} /\ call.out.lowestBottom = 0
               /\ call.out.lowestIncludes = 0)
    /\ call.out.highestTop >= SmallerOf(TopCount, Cardinality(DefinedIn(call.all)))
    /\ call.out.lowestBottom >= SmallerOf(TopCount, Cardinality(DefinedIn(call.all)))

\* more than ten features have a value and the tenth from the top ties with
\* the eleventh: the top holds more than ten, some of them named
C22_Witness ==
  /\ Ranked
  /\ Cardinality(DefinedIn(call.all)) > TopCount
  /\ call.out.highestTop > TopCount
  /\ call.out.highestIncludes > 0
  /\ call.out.highestIncludes < call.out.highestTop
  /\ call.out.lowestBottom = TopCount


\* the members of the Correct Set that have the ranked attribute
DefinedCorrect == { call.correct[i] : i \in DefinedIn(call.correct) }

\* list holds the TopCount members of DefinedCorrect that come first in the
\* order Before, in that order
IsRanking(list, Before(_, _)) ==
  /\ Len(list) <= TopCount
  /\ \A i \in 1..Len(list) : list[i] \in DefinedCorrect
  /\ \A i, j \in 1..Len(list) : i < j =>
       /\ list[i] # list[j]
       /\ Before(RankOf(list[i]), RankOf(list[j]))
  /\ \A f \in DefinedCorrect \ Range(list) :
       /\ Len(list) = TopCount
       /\ \A i \in 1..Len(list) : Before(RankOf(list[i]), RankOf(f))

\* C28: the highest list holds at most ten members of the Correct Set that
\* have the attribute, in descending order, and no member outside it has a
\* larger value; the lowest list likewise, ascending; a feature without the
\* attribute is in neither list and in neither N nor M.
C28_RankedLists ==
  Ranked =>
    /\ IsRanking(call.out.highestCorrectTen, LAMBDA a, b : a >= b)
    /\ IsRanking(call.out.lowestCorrectTen, LAMBDA a, b : a <= b)
    /\ call.out.highestIncludes <= Cardinality(DefinedIn(call.correct))
    /\ call.out.lowestIncludes <= Cardinality(DefinedIn(call.correct))
    /\ call.out.highestTop <= Cardinality(DefinedIn(call.all))
    /\ call.out.lowestBottom <= Cardinality(DefinedIn(call.all))

\* more than ten members of the Correct Set have the attribute, with three
\* values, and one member and one feature lack it
C28_Witness ==
  /\ Ranked
  /\ Cardinality(DefinedCorrect) > TopCount
  /\ Cardinality(RanksIn(call.correct)) = 3
  /\ Cardinality(DefinedIn(call.correct)) < Len(call.correct)
  /\ Cardinality(DefinedIn(call.all)) < Len(call.all)
  /\ Len(call.out.highestCorrectTen) = TopCount
  /\ RankOf(call.out.highestCorrectTen[1]) > RankOf(call.out.highestCorrectTen[TopCount])
  /\ call.out.highestCorrectTen # call.out.lowestCorrectTen


\* the feature has the attribute and its value is at least the minimum
Meets(feature, property, minimum) ==
  /\ property \in DOMAIN Entity(feature).properties
  /\ Entity(feature).properties[property] >= minimum
Passes(feature) ==
  /\ Meets(feature, "prominenceFt", prominenceCutoff)
  /\ Meets(feature, "elevationFt", elevationCutoff)

\* C23: a feature is in filteredAll, and a member of the Correct Set in
\* filteredCorrect, exactly when it has every filtered attribute with a value
\* at least the minimum; a feature that lacks one is in neither, whatever
\* the other minimum is; choosing a minimum changes neither the collection
\* nor the Correct Set.
C23_ThresholdFilter ==
  /\ [](ViewsRendered =>
          /\ \A f \in Range(Features(data)) :
               f \in Range(FilteredNow.allFiltered) <=> Passes(f)
          /\ \A f \in Range(correct) :
               f \in Range(FilteredNow.correctFiltered) <=> Passes(f)
          /\ Range(FilteredNow.allFiltered) \subseteq Range(Features(data))
          /\ Range(FilteredNow.correctFiltered) \subseteq Range(correct))
  /\ [][(prominenceCutoff' # prominenceCutoff \/ elevationCutoff' # elevationCutoff)
          => (data' = data /\ correct' = correct /\ guesses' = guesses)]_vars

\* both minimums chosen: of the named features one is left out for lacking
\* an attribute although it meets the other minimum, one for its value,
\* and one passes
C23_Witness ==
  /\ ViewsRendered
  /\ prominenceCutoff = 1000 /\ elevationCutoff = 9000
  /\ Len(FilteredNow.allFiltered) = 1
  /\ Len(FilteredNow.correctFiltered) = 1
  /\ \E f \in Range(correct) :
       /\ "elevationFt" \in DOMAIN Entity(f).properties
       /\ Meets(f, "prominenceFt", prominenceCutoff) /\ ~Passes(f)
  /\ \E f \in Range(correct) : "elevationFt" \notin DOMAIN Entity(f).properties


\* a collection is on display
Loaded == mounted /\ ~crashed /\ data # Undefined /\ HasFeatures(Docs[data.file])

\* the features of the loaded document d that the guess s matches
MatchesIn(d, s) ==
  { f \in Range(Features(d)) :
      isMatch(s, f, TitleProperty(Docs[d.file]),
              AltTitleProperties(Docs[d.file]), IgnoredWords(Docs[d.file])) }

\* the features on display that the guess s matches
MatchesOf(s) == MatchesIn(data, s)

\* C24: with a collection on display, the submission of a new guess puts
\* every feature of the collection that the guess matches into the Correct
\* Set (all of them when several share a title), leaves the Correct Set as
\* it is when the guess matches none, and removes no member.
C24_SubmitAddsAllMatches ==
  [][(Loaded /\ guesses' # guesses) =>
       /\ MatchesOf(draft.value) \subseteq Range(correct')
       /\ MatchesOf(draft.value) = {} => correct' = correct
       /\ Range(correct) \subseteq Range(correct')
       /\ Range(correct') \subseteq Range(correct) \cup MatchesOf(draft.value)]_vars

\* the one guess K2 was submitted on the first collection loaded, which has
\* two features of that title: both are members
C24_Witness ==
  /\ Loaded /\ data.file = "wa" /\ nextLoad = 2
  /\ guesses = <<sK2>> /\ saved = Item(<<sK2>>) /\ draft = Null
  /\ Len(correct) = 2
  /\ Range(correct) = MatchesOf(sK2)


\* the guesses submitted since the load l started
SubmittedDuring(l) == Range(guesses) \ Range(l.guesses)

C27_LedgerOrder ==
  /\ [][(mounted /\ guesses' # guesses) => guesses' = <<draft.value>> \o guesses]_vars
  /\ [](mounted => (saved.present /\ saved.list = guesses))
  /\ [](mounted => RestoreGuesses(saved) = guesses)

\* a second guess was accepted (it matched nothing, the draft is still in
\* the field): it is ahead of the first, in the ledger and in the store
C27_Witness ==
  /\ mounted /\ ~crashed
  /\ Len(guesses) = 2
  /\ ~draft.isNull /\ draft.value = guesses[1]
  /\ guesses[2] = sK2
  /\ saved = Item(guesses)


C30_CanonicalTokens ==
  (Normalized(1) /\ ~call.out.threw) =>
    LET form == call.out.value
    IN /\ form # <<>> => (form[1] # " " /\ form[Len(form)] # " ")
       /\ \A i \in 1..(Len(form) - 1) : ~(form[i] = " " /\ form[i + 1] = " ")
       /\ call.pieces = <<pDash, sSpace, sIda>> => call.out = Canonical(sIda)

=============================================================================
